---- MODULE Spec2Model ----
\* Model of app.py: the Smart Data Profiler Streamlit script.
\*
\* Texts are sequences of tokens.  Each token stands for a fixed piece of
\* Python text:
\*   "~"  one backtick character (the fence is three of them)
\*   "P"  the word  python
\*   " "  one whitespace character
\*   "x"  the letter x
\*   "R"  the header  RATIONALE:
\*   "M"  the statement  df.dropna(inplace=True);
\*   "B"  the statement  df=df.dropna();
\*   "E"  the statement  raise ValueError('boom');
\* so <<"~","~","~","P">> is the opening fence and <<"~","~","~">> the closing one.
\*
\* A table is a sequence of row values, 0 standing for a missing value.
\* Tables live in a heap addressed by references, so that in-place
\* mutation, copying and rebinding of a name are distinguishable.
EXTENDS Naturals, Integers, Sequences, FiniteSets

VARIABLES uploaded_file, session_state, heap, last, shown, loaded, derived,
          run, pending, text, snip, rep, again, pc

vars == <<uploaded_file, session_state, heap, last, shown, loaded, derived,
          run, pending, text, snip, rep, again, pc>>

sessionVars == <<uploaded_file, session_state, heap, last, shown, loaded, derived,
                 run, pending>>

parseVars == <<text, snip, rep, again, pc>>

----------------------------------------------------------------------------
\* ---- Bounds ----

MaxBody == 3

MaxProg == 1

NumRefs == 5

----------------------------------------------------------------------------
\* ---- String primitives (Python str semantics on token sequences) ----

OpenFence == <<"~", "~", "~", "P">>

CloseFence == <<"~", "~", "~">>

Header == <<"R">>

Fallback == <<"Report generated successfully. Review the code below.">>

Whitespace == {" "}

\* Index of the first occurrence of sub in s at or after position i, 0 if none
\* (str.find).
RECURSIVE FindFrom(_, _, _)
FindFrom(s, sub, i) ==
    IF i + Len(sub) - 1 > Len(s) THEN 0
    ELSE IF SubSeq(s, i, i + Len(sub) - 1) = sub THEN i
    ELSE FindFrom(s, sub, i + 1)

\* sub in s
Contains(s, sub) == FindFrom(s, sub, 1) # 0

\* s.split(sep): the pieces between the leftmost non-overlapping occurrences.
RECURSIVE split(_, _)
split(s, sep) ==
    LET i == FindFrom(s, sep, 1)
    IN  IF i = 0 THEN <<s>>
        ELSE <<SubSeq(s, 1, i - 1)>> \o split(SubSeq(s, i + Len(sep), Len(s)), sep)

RECURSIVE lstrip(_)
lstrip(s) == IF s # <<>> /\ Head(s) \in Whitespace THEN lstrip(Tail(s)) ELSE s

RECURSIVE rstrip(_)
rstrip(s) ==
    IF s # <<>> /\ s[Len(s)] \in Whitespace THEN rstrip(SubSeq(s, 1, Len(s) - 1)) ELSE s

\* s.strip()
strip(s) == rstrip(lstrip(s))

----------------------------------------------------------------------------
\* ---- Response parser ----

\* Variant: the part after the opening fence is returned without cutting it
\* at the closing fence.
extract_code_uncut(t) ==
    LET parts == split(t, OpenFence)
    IN  IF Len(parts) < 2 THEN <<>> ELSE strip(parts[2])

\* text.split("```python")[1].split("```")[0].strip(); an IndexError of the
\* [1] is swallowed by the bare except and gives "".
extract_code(t) ==
    LET parts == split(t, OpenFence)
    IN  IF Len(parts) < 2 THEN <<>>
        ELSE strip(split(parts[2], CloseFence)[1])

\* Variant: the text before the fence is returned without .strip().
extract_report_unstripped(t) ==
    IF Contains(t, Header) THEN split(t, OpenFence)[1]
    ELSE Fallback

extract_report(t) ==
    IF Contains(t, Header) THEN strip(split(t, OpenFence)[1])
    ELSE Fallback

\* The snippet wrapped in fences again: "```python" + s + "```"
Wrap(s) == OpenFence \o s \o CloseFence

----------------------------------------------------------------------------
\* ---- Inputs of the parser ----

ParseAlphabet == {"~", "P", " ", "x", "R"}

Strs(A, n) == UNION {[1..k -> A] : k \in 0..n}

Prefixes == {<<>>, <<"R">>, <<"R", " ">>, <<"x">>, <<"~">>}

Suffixes == {<<>>, <<"x">>, <<" ", "~">>}

Texts ==
    {pre \o open \o body \o close \o suf :
        pre \in Prefixes, open \in {<<>>, OpenFence},
        body \in Strs(ParseAlphabet, MaxBody),
        close \in {<<>>, CloseFence}, suf \in Suffixes}

----------------------------------------------------------------------------
\* ---- Tables and the heap ----

Refs == 1..NumRefs

\* No table: the key is not in st.session_state.
NoRef == 0

\* A heap cell holding no table.
Free == <<-1>>

\* A text key that is not in st.session_state.
Missing == <<"<missing>">>

\* uploaded_file is None
None == "None"

Files == {"a.csv", "b.csv"}

\* pd.read_csv(uploaded_file): the table a file holds.
read_csv(f) ==
    IF f = "a.csv" THEN <<1, 0, 2>> ELSE <<0, 3>>

\* df.head(n)
head(t, n) == SubSeq(t, 1, IF Len(t) < n THEN Len(t) ELSE n)

WebhookRows == 100

\* The rows without a missing value.
dropna(t) == SelectSeq(t, LAMBDA v : v # 0)

\* The lowest free heap cell.
Alloc(hp) == CHOOSE r \in Refs : hp[r] = Free /\ \A q \in 1..(r - 1) : hp[q] # Free

\* Variant: no copy is made, the snippet gets the original table itself.
DataFrame_alias(hp, ref) == [heap |-> hp, ref |-> ref]

\* st.session_state['df_original'].copy(): a new table with the same rows.
DataFrame_copy(hp, ref) ==
    LET r == Alloc(hp)
    IN  [heap |-> [hp EXCEPT ![r] = hp[ref]], ref |-> r]

----------------------------------------------------------------------------
\* ---- exec of the snippet ----
\*
\* The snippet is one logical line.  Every statement token ends with ';', so
\* the line is a list of simple statements: whatever precedes a statement
\* token is glued to its front, and what follows the last ';' is a final
\* statement of its own.  Glued text can still be valid Python:
\*   xdf=df.dropna();                     assigns another name
\*   RATIONALE: df.dropna(inplace=True);  an annotation, evaluated when run
\*   RATIONALE: df=df.dropna();           annotated assignment to RATIONALE

StatementTokens == {"M", "B", "E"}

NameTokens == {"x", "P"}

AllIn(s, A) == \A i \in 1..Len(s) : s[i] \in A

\* Index of the first statement token at or after i, 0 if none.
RECURSIVE FirstStatement(_, _)
FirstStatement(code, i) ==
    IF i > Len(code) THEN 0
    ELSE IF code[i] \in StatementTokens THEN i
    ELSE FirstStatement(code, i + 1)

\* The simple statements of the line: pre is the text glued in front (blanks
\* after the preceding ';' dropped), stmt the statement token, "" for the
\* text after the last ';'.
RECURSIVE Chunks(_)
Chunks(code) ==
    LET i == FirstStatement(code, 1)
    IN  IF i = 0 THEN <<[pre |-> strip(code), stmt |-> ""]>>
        ELSE <<[pre |-> lstrip(SubSeq(code, 1, i - 1)), stmt |-> code[i]]>>
                 \o Chunks(SubSeq(code, i + 1, Len(code)))

Invalid == [kind |-> "invalid", name |-> <<>>]

\* How Python parses one simple statement.  "plain": name tokens glued to the
\* statement (none: the statement itself).  "ann": [name]RATIONALE: followed
\* by an expression or an assignment.  name is the identifier prefix that is
\* read or assigned (name + df, or the bare name in a final statement).
Shape(c) ==
    LET r == FindFrom(c.pre, Header, 1)
    IN  IF r = 0
        THEN IF AllIn(c.pre, NameTokens) /\ ~(c.stmt = "E" /\ c.pre # <<>>)
             THEN [kind |-> "plain", name |-> c.pre]
             ELSE Invalid
        ELSE LET n1 == SubSeq(c.pre, 1, r - 1)
                 n2 == lstrip(SubSeq(c.pre, r + 1, Len(c.pre)))
             IN  IF /\ AllIn(n1, NameTokens) /\ AllIn(n2, NameTokens)
                    /\ c.stmt # "E"
                    /\ ~(c.stmt = "" /\ n2 = <<>>)
                 THEN [kind |-> "ann", name |-> n2]
                 ELSE Invalid

\* compile(): a blank line is an empty program; a leading blank is an
\* IndentationError; a backtick or a malformed statement is a SyntaxError.
Compiles(code) ==
    \/ AllIn(code, Whitespace)
    \/ /\ code[1] \notin Whitespace
       /\ \A i \in 1..Len(code) : code[i] # "~"
       /\ LET cs == Chunks(code)
          IN  \A k \in 1..Len(cs) : Shape(cs[k]).kind # "invalid"

\* Runs the statements in order in the globals {'df': df}.  keep are the
\* references other names of the script still hold; names are the prefixes n
\* for which the snippet has bound the name n + df.  Tables bound to such
\* other names never alias df and are dropped with the globals.
RECURSIVE RunChunks(_, _, _, _, _)
RunChunks(hp, df, keep, names, cs) ==
    IF cs = <<>> THEN [raised |-> FALSE, heap |-> hp, df |-> df]
    ELSE LET c    == Head(cs)
             sh   == Shape(c)
             n    == sh.name
             rest == Tail(cs)
             Raise == [raised |-> TRUE, heap |-> hp, df |-> df]
             Skip  == RunChunks(hp, df, keep, names, rest)
         IN  CASE c.stmt = "" -> IF n # <<>> THEN Raise ELSE Skip
               [] c.stmt = "E" -> Raise
               [] c.stmt = "M" ->
                    IF n = <<>>
                    THEN RunChunks([hp EXCEPT ![df] = dropna(hp[df])],
                                   df, keep, names, rest)
                    ELSE IF n \in names THEN Skip ELSE Raise
               [] OTHER ->
                    IF sh.kind = "plain"
                    THEN IF n = <<>>
                         THEN LET r == Alloc(hp)
                                  hp1 == [hp EXCEPT ![r] = dropna(hp[df])]
                                  hp2 == IF df \in keep THEN hp1
                                         ELSE [hp1 EXCEPT ![df] = Free]
                              IN  RunChunks(hp2, r, keep, names, rest)
                         ELSE RunChunks(hp, df, keep, names \cup {n}, rest)
                    ELSE IF n = <<>> \/ n \in names THEN Skip ELSE Raise

\* exec(cleaning_code, {'pd': pd, 'np': np, 'df': df_clean})
exec(code, hp, df, keep) ==
    IF Compiles(code) THEN RunChunks(hp, df, keep, {}, Chunks(code))
    ELSE [raised |-> TRUE, heap |-> hp, df |-> df]

----------------------------------------------------------------------------
\* ---- Delivery notifier ----
\*
\* A URL is a sequence of tokens: a scheme ("https://", "http://") and a host
\* ("hook"); <<>> is the empty text field.
\*
\* An endpoint is the sequence of its answers to the successive requests of
\* one delivery, the last answer repeating: a status code, or 0 when the
\* transport fails (connection refused, timeout).  An answer 301, 302, 303,
\* 307 or 308 carries a Location header.

HttpSchemes == {"https://", "http://"}

Urls == {<<>>, <<"hook">>, <<"https://">>, <<"https://", "hook">>}

Endpoints ==
    {<<0>>, <<200>>, <<201>>, <<204>>, <<500>>,
     <<307, 200>>, <<302, 200>>, <<307>>}

\* PreparedRequest.prepare_url: "ok", or the exception it raises.
prepare_url(url) ==
    IF url = <<>> \/ url[1] \notin HttpSchemes THEN "MissingSchema"
    ELSE IF Len(url) < 2 THEN "InvalidURL"
    ELSE "ok"

\* A missing value in the payload: requests refuses to encode NaN as JSON.
HasMissing(t) == \E i \in 1..Len(t) : t[i] = 0

\* The statuses requests follows (allow_redirects defaults to True).
RedirectStati == {301, 302, 303, 307, 308}

\* Session.max_redirects
max_redirects == 30

\* SessionRedirectMixin.rebuild_method: 307 and 308 repeat the request, the
\* others turn a POST into a GET.
rebuild_method(method, status) ==
    IF status \in {301, 302, 303} THEN "GET" ELSE method

\* Sends the request number k of the delivery and follows the answer;
\* redirects is the number of answers followed so far.
RECURSIVE Deliver(_, _, _, _, _, _)
Deliver(endpoint, k, method, redirects, posts, gets) ==
    LET answer == endpoint[IF k < Len(endpoint) THEN k ELSE Len(endpoint)]
        p == IF method = "POST" THEN posts + 1 ELSE posts
        g == IF method = "GET" THEN gets + 1 ELSE gets
    IN  IF answer = 0
        THEN [posts |-> p, gets |-> g, status |-> 0, raised |-> TRUE]
        ELSE IF answer \in RedirectStati
        THEN IF redirects >= max_redirects
             THEN [posts |-> p, gets |-> g, status |-> answer, raised |-> TRUE]
             ELSE Deliver(endpoint, k + 1, rebuild_method(method, answer),
                          redirects + 1, p, g)
        ELSE [posts |-> p, gets |-> g, status |-> answer, raised |-> FALSE]

\* posts and gets count the requests that reach the transport; status is
\* that of the last answer, 0 when there was none; logged is the
\* logger.error of the except branch.
send_to_webhook(dataframe, webhook_url, endpoint) ==
    LET data_json == head(dataframe, WebhookRows)
    IN  IF prepare_url(webhook_url) # "ok" \/ HasMissing(data_json)
        THEN [payload |-> data_json, posts |-> 0, gets |-> 0, status |-> 0,
              logged |-> TRUE, result |-> FALSE]
        ELSE LET d == Deliver(endpoint, 1, "POST", 0, 0, 0)
             IN  [payload |-> data_json, posts |-> d.posts, gets |-> d.gets,
                  status |-> d.status, logged |-> d.raised,
                  result |-> ~d.raised /\ d.status = 200]

----------------------------------------------------------------------------
\* ---- LLM replies ----

Progs == Strs(StatementTokens, MaxProg)

\* A rationale followed by one fenced block, as the prompt asks for.
WellFormedTexts ==
    {<<"R", " ">> \o OpenFence \o <<" ">> \o prog \o <<" ">> \o CloseFence :
        prog \in Progs}

\* Replies that do not follow the prompt: the empty string, no rationale
\* header, no closing fence, text glued to the statements, no fence at all.
MalformedTexts ==
    {<<>>,
     OpenFence \o <<"M">> \o CloseFence,
     <<"R", " ">> \o OpenFence \o <<"B">>,
     <<"R", " ">> \o OpenFence \o <<"M", "x">> \o CloseFence,
     <<"R", " ">> \o OpenFence \o <<"x", "B">> \o CloseFence,
     OpenFence \o <<" ", "R", " ", "M">> \o CloseFence,
     <<"R", " ", "M">>}

ReplyTexts == WellFormedTexts \cup MalformedTexts

\* generate_content either raises, or returns a response whose text is None
\* (blocked) or a string.
Replies ==
    {[kind |-> "raise", text |-> <<>>], [kind |-> "none", text |-> <<>>]}
        \cup {[kind |-> "text", text |-> t] : t \in ReplyTexts}

\* Variant: the emptiness test is dropped.
never_empty(reply) == FALSE

\* not response.text
not_response_text(reply) == reply.kind = "none" \/ reply.text = <<>>

----------------------------------------------------------------------------
\* ---- The script ----
\*
\* A script run is not atomic: Streamlit can end it at any st.* call or
\* st.session_state access once the user has touched a widget, and then
\* starts the run for that widget from the top.  A run is therefore a
\* sequence of steps, and run names the point the script has reached and
\* not yet executed:
\*   "top"      the head of the script, before the write of line 100
\*   "draw"     the sample of the original and the Analyze button
\*   "calling"  the Analyze handler, waiting for generate_content
\*   "failed"   the st.error of a failure
\*   "w1", "w2", "w3"  the three session writes
\*   "display"  the results section
\*   "send"     the read of the cleaned table for send_to_webhook
\*   "notify"   the message after the Trigger click
\*   "idle"     the run has ended
\* The page keeps what an earlier run drew until a run draws that part
\* again or ends without drawing it.

NoSession ==
    [df_original |-> NoRef, df_clean |-> NoRef,
     report_text |-> Missing, cleaning_code |-> Missing]

\* What is on the page below the uploader: nothing; the original sample
\* with the Analyze button; these and the results with the Trigger button;
\* or these and the KeyError that ended the run in the results section.
NothingShown == "nothing"

OriginalShown == "original"

\* The local variables of an Analyze run between exec and the writes.
NoPending ==
    [df_clean |-> NoRef, report_text |-> Missing, cleaning_code |-> Missing,
     final_df |-> Free, text |-> Missing]

NoLast ==
    [op |-> "init", outcome |-> "none", no_text |-> FALSE, parsed |-> FALSE,
     executed |-> FALSE, logged |-> FALSE, reported |-> FALSE,
     final_df |-> Free, url |-> <<>>, status |-> 0, result |-> FALSE,
     posts |-> 0, gets |-> 0, payload |-> Free]

\* Cells no name refers to any more are reclaimed.
Collect(hp, sess, local) ==
    [r \in Refs |-> IF r \in {sess.df_original, sess.df_clean, local}
                    THEN hp[r] ELSE Free]

\* if 'df_original' not in st.session_state: ... = pd.read_csv(uploaded_file)
LoadOriginal(sess, hp, file) ==
    IF file # None /\ sess.df_original = NoRef
    THEN LET r == Alloc(hp)
         IN  [session |-> [sess EXCEPT !.df_original = r],
              heap    |-> [hp EXCEPT ![r] = read_csv(file)],
              read    |-> TRUE]
    ELSE [session |-> sess, heap |-> hp, read |-> FALSE]

\* Variant: an exception of exec is swallowed and the writes follow.
AfterExec_always_write(raised) == "w1"

\* try: exec(...); <writes> / except Exception: <report>
AfterExec(raised) == IF raised THEN "failed" ELSE "w1"

\* From the return of generate_content to the first session write or to the
\* report of a failure: the emptiness test, the parse, the copy and exec.
AnalyzePipeline(sess, hp, reply) ==
    IF reply.kind = "raise"
    THEN [run |-> "failed", heap |-> hp, outcome |-> "service_error",
          parsed |-> FALSE, executed |-> FALSE, logged |-> TRUE,
          pending |-> NoPending]
    ELSE IF not_response_text(reply)
    THEN [run |-> "failed", heap |-> hp, outcome |-> "empty",
          parsed |-> FALSE, executed |-> FALSE, logged |-> FALSE,
          pending |-> NoPending]
    ELSE LET cleaning_code == extract_code(reply.text)
             report_text   == extract_report(reply.text)
             c == DataFrame_copy(hp, sess.df_original)
             x == exec(cleaning_code, c.heap, c.ref,
                       {sess.df_original, sess.df_clean, c.ref})
             next == AfterExec(x.raised)
         IN  [run |-> next, heap |-> x.heap,
              outcome |-> IF x.raised THEN "exec_error" ELSE "writing",
              parsed |-> TRUE, executed |-> TRUE, logged |-> x.raised,
              pending |-> IF next = "w1"
                          THEN [df_clean |-> c.ref, report_text |-> report_text,
                                cleaning_code |-> cleaning_code,
                                final_df |-> x.heap[x.df], text |-> reply.text]
                          ELSE NoPending]

\* The results section at the end of the script; reading a key that is not
\* in st.session_state raises KeyError and ends the run.
ResultsDisplay(sess) ==
    IF sess.df_clean = NoRef THEN OriginalShown
    ELSE IF sess.report_text = Missing \/ sess.cleaning_code = Missing
    THEN "KeyError"
    ELSE "results"

\* The Analyze button is on the page.
AnalyzeButtonShown == shown # NothingShown

\* The Trigger Automation button is on the page.
TriggerButtonShown == shown = "results"

----------------------------------------------------------------------------
\* ---- Session specification ----

InitParse ==
    /\ text = <<>> /\ snip = <<>> /\ rep = <<>> /\ again = <<>> /\ pc = "idle"

InitSession ==
    /\ uploaded_file = None
    /\ session_state = NoSession
    /\ heap = [r \in Refs |-> Free]
    /\ last = NoLast
    /\ shown = NothingShown
    /\ loaded = [file |-> None, table |-> Free]
    /\ derived = [file |-> None, text |-> Missing]
    /\ run = "idle"
    /\ pending = NoPending

Init == InitSession /\ InitParse

\* A widget event: the run in progress ends where it is, its locals are
\* dropped, and a new run starts at the top of the script.
StartRun(op, url) ==
    /\ last' = [NoLast EXCEPT !.op = op, !.url = url]
    /\ run' = "top"
    /\ pending' = NoPending
    /\ heap' = Collect(heap, session_state, NoRef)
    /\ UNCHANGED <<session_state, shown, loaded, derived, parseVars>>

\* The user picks a file in the uploader.
Upload(f) ==
    /\ uploaded_file' = f
    /\ StartRun("upload", <<>>)

\* The user removes the file from the uploader.
RemoveFile ==
    /\ uploaded_file # None
    /\ uploaded_file' = None
    /\ StartRun("remove", <<>>)

\* The user clicks Analyze.
AnalyzeClick ==
    /\ AnalyzeButtonShown
    /\ UNCHANGED uploaded_file
    /\ StartRun("analyze", <<>>)

\* The user clicks Trigger Automation with the given URL in the text field.
Trigger(url) ==
    /\ TriggerButtonShown
    /\ UNCHANGED uploaded_file
    /\ StartRun("trigger", url)

\* The head of the script up to the write of line 100: without a file the
\* run ends with an empty page; with one, the original is loaded and stored
\* if the session has none.  Nothing is drawn yet.
Load ==
    /\ run = "top"
    /\ \E l \in {LoadOriginal(session_state, heap, uploaded_file)} :
           /\ session_state' = l.session
           /\ heap' = l.heap
           /\ loaded' = IF l.read
                        THEN [file |-> uploaded_file,
                              table |-> read_csv(uploaded_file)]
                        ELSE loaded
    /\ IF uploaded_file = None
       THEN shown' = NothingShown /\ run' = "idle"
       ELSE run' = "draw" /\ UNCHANGED shown
    /\ UNCHANGED <<uploaded_file, last, derived, pending, parseVars>>

\* The sample of the original and the Analyze button are drawn; the run
\* goes on to the Analyze handler if that button was clicked, otherwise to
\* the results section.
DrawOriginal ==
    /\ run = "draw"
    /\ shown' = IF shown = NothingShown THEN OriginalShown ELSE shown
    /\ run' = IF last.op = "analyze" THEN "calling" ELSE "display"
    /\ last' = IF last.op = "analyze"
               THEN [last EXCEPT !.outcome = "calling"]
               ELSE last
    /\ UNCHANGED <<uploaded_file, session_state, heap, loaded, derived,
                   pending, parseVars>>

\* generate_content returns (or raises); the run goes on to the report of a
\* failure or to the first session write.
AnalyzeReply(reply) ==
    /\ run = "calling"
    /\ \E a \in {AnalyzePipeline(session_state, heap, reply)} :
           /\ run' = a.run
           /\ pending' = a.pending
           /\ heap' = Collect(a.heap, session_state, a.pending.df_clean)
           /\ last' = [last EXCEPT
                          !.outcome = a.outcome,
                          !.no_text = (reply.kind = "none"
                                         \/ (reply.kind = "text" /\ reply.text = <<>>)),
                          !.parsed = a.parsed, !.executed = a.executed,
                          !.logged = a.logged]
    /\ UNCHANGED <<uploaded_file, session_state, shown, loaded, derived, parseVars>>

\* st.error of the failure; then st.stop() after an empty response, which
\* ends the run with nothing below the Analyze button, otherwise on to the
\* results section.
ReportFailure ==
    /\ run = "failed"
    /\ last' = [last EXCEPT !.reported = TRUE]
    /\ IF last.outcome = "empty"
       THEN run' = "idle" /\ shown' = OriginalShown
       ELSE run' = "display" /\ UNCHANGED shown
    /\ UNCHANGED <<uploaded_file, session_state, heap, loaded, derived,
                   pending, parseVars>>

\* st.session_state['df_clean'] = df_clean
WriteClean ==
    /\ run = "w1"
    /\ session_state' = [session_state EXCEPT !.df_clean = pending.df_clean]
    /\ heap' = Collect(heap, session_state', pending.df_clean)
    /\ derived' = [file |-> loaded.file, text |-> pending.text]
    /\ run' = "w2"
    /\ UNCHANGED <<uploaded_file, last, shown, loaded, pending, parseVars>>

\* st.session_state['report_text'] = report_text
WriteReport ==
    /\ run = "w2"
    /\ session_state' = [session_state EXCEPT !.report_text = pending.report_text]
    /\ run' = "w3"
    /\ UNCHANGED <<uploaded_file, heap, last, shown, loaded, derived, pending,
                   parseVars>>

\* st.session_state['cleaning_code'] = cleaning_code; the handler is done.
WriteCode ==
    /\ run = "w3"
    /\ session_state' = [session_state EXCEPT !.cleaning_code = pending.cleaning_code]
    /\ last' = [last EXCEPT !.outcome = "success", !.final_df = pending.final_df]
    /\ run' = "display"
    /\ pending' = NoPending
    /\ UNCHANGED <<uploaded_file, heap, shown, loaded, derived, parseVars>>

\* The results section up to the Trigger button.  If that button was
\* clicked the run goes on to the delivery, or to the warning when the URL
\* field is empty; otherwise the run ends.
Display ==
    /\ run = "display"
    /\ shown' = ResultsDisplay(session_state)
    /\ run' = IF last.op = "trigger" /\ shown' = "results"
              THEN IF last.url # <<>> THEN "send" ELSE "notify"
              ELSE "idle"
    /\ UNCHANGED <<uploaded_file, session_state, heap, last, loaded, derived,
                   pending, parseVars>>

\* send_to_webhook(st.session_state['df_clean'], webhook_url); the endpoint
\* answers as given.
Send(endpoint) ==
    /\ run = "send"
    /\ \E w \in {send_to_webhook(heap[session_state.df_clean], last.url, endpoint)} :
           last' = [last EXCEPT !.outcome = "sent",
                       !.status = w.status, !.result = w.result,
                       !.posts = w.posts, !.gets = w.gets,
                       !.payload = w.payload, !.logged = w.logged]
    /\ run' = "notify"
    /\ UNCHANGED <<uploaded_file, session_state, heap, shown, loaded, derived,
                   pending, parseVars>>

\* st.success, st.error or st.warning after the Trigger click.
Notify ==
    /\ run = "notify"
    /\ last' = [last EXCEPT !.reported = TRUE]
    /\ run' = "idle"
    /\ UNCHANGED <<uploaded_file, session_state, heap, shown, loaded, derived,
                   pending, parseVars>>

Next ==
    \/ \E f \in Files : Upload(f)
    \/ RemoveFile
    \/ AnalyzeClick
    \/ \E url \in Urls : Trigger(url)
    \/ Load
    \/ DrawOriginal
    \/ \E reply \in Replies : AnalyzeReply(reply)
    \/ ReportFailure
    \/ WriteClean
    \/ WriteReport
    \/ WriteCode
    \/ Display
    \/ \E endpoint \in Endpoints : Send(endpoint)
    \/ Notify

Spec == Init /\ [][Next]_vars

----------------------------------------------------------------------------
\* ---- Parser specification ----

ParseInit ==
    /\ InitSession
    /\ text \in Texts
    /\ snip = Missing /\ rep = Missing /\ again = Missing
    /\ pc = "code"

CallExtractCode ==
    /\ pc = "code"
    /\ snip' = extract_code(text)
    /\ pc' = "report"
    /\ UNCHANGED <<text, rep, again, sessionVars>>

CallExtractReport ==
    /\ pc = "report"
    /\ rep' = extract_report(text)
    /\ pc' = "rewrap"
    /\ UNCHANGED <<text, snip, again, sessionVars>>

CallExtractCodeAgain ==
    /\ pc = "rewrap"
    /\ again' = extract_code(Wrap(snip))
    /\ pc' = "done"
    /\ UNCHANGED <<text, snip, rep, sessionVars>>

ParseNext == CallExtractCode \/ CallExtractReport \/ CallExtractCodeAgain

SpecParse == ParseInit /\ [][ParseNext]_vars

----------------------------------------------------------------------------
\* ---- Properties of the session ----

\* The cleaned table the session holds, Free when the key is absent.
CleanTable ==
    IF session_state.df_clean = NoRef THEN Free ELSE heap[session_state.df_clean]

\* The three results of an analysis as the session holds them.
Results ==
    <<session_state.df_clean, CleanTable, session_state.report_text,
      session_state.cleaning_code>>

\* The table the name df is bound to after executing code on a copy of
\* table t, for code that does not raise.
SnippetResult(code, t) ==
    LET hp == [r \in Refs |-> IF r = 1 THEN t ELSE Free]
        x  == exec(code, hp, 1, {1})
    IN  x.heap[x.df]

\* C1: an Analyze click whose snippet raises leaves the session as it was
\* before the click (the same cleaned table or none, the same rationale and
\* snippet) at every step of the run, logs the failure, and the run ends
\* with the failure reported.
C1_FailureKeepsSession ==
    [][(last'.op = "analyze" /\ last'.outcome \in {"none", "calling", "exec_error"})
          => /\ Results' = Results
             /\ last'.outcome = "exec_error"
                   => /\ last'.logged
                      /\ session_state' = session_state
                      /\ run' = "idle" => last'.reported]_vars

\* C1 witness: a snippet raised and the run ended with the report, while the
\* session held the results of an earlier successful analysis.
C1_Witness ==
    /\ last.op = "analyze" /\ last.outcome = "exec_error" /\ last.executed
    /\ run = "idle" /\ last.reported
    /\ session_state.df_clean # NoRef
    /\ session_state.cleaning_code # Missing

\* C2 (as claimed): after a successful exec the cleaned table in the session
\* is the table the name df is bound to at the end of the execution.
C2_StoredIsFinalDf ==
    (last.op = "analyze" /\ last.outcome = "success")
        => CleanTable = last.final_df

\* C5 (as claimed): send_to_webhook makes a single POST attempt and returns
\* true exactly when the endpoint answered with a 2xx status.
C5_TrueExactlyOn2xx ==
    (last.op = "trigger" /\ last.outcome = "sent")
        => /\ last.posts <= 1
           /\ last.result <=> last.status \in 200..299

\* C6 (as claimed): once a run has ended, the original table of the session
\* is the table of the file uploaded last, and results shown were derived
\* from that file.
C6_ReplacedOnReupload ==
    (run = "idle" /\ uploaded_file # None)
        => /\ heap[session_state.df_original] = read_csv(uploaded_file)
           /\ shown = "results" => derived.file = uploaded_file

\* C7: an Analyze click answered without textual content calls neither
\* extractor, executes nothing, leaves the cleaned table, rationale and
\* snippet of the session unchanged, and the run ends with the report to
\* the user and no results section on the page.
C7_EmptyResponseHalts ==
    [][(last'.op = "analyze" /\ last'.no_text)
          => /\ last'.outcome = "empty"
             /\ ~last'.parsed
             /\ ~last'.executed
             /\ run' \in {"failed", "idle"}
             /\ run' = "idle" => (last'.reported /\ shown' = OriginalShown)
             /\ session_state' = session_state
             /\ CleanTable' = CleanTable]_vars

\* C7 witness: an empty response was reported while the session held
\* results, which the page no longer shows.
C7_Witness ==
    /\ last.op = "analyze" /\ last.no_text /\ last.outcome = "empty"
    /\ run = "idle" /\ last.reported
    /\ session_state.df_clean # NoRef
    /\ shown = OriginalShown

\* C8: the table stored as the original always equals the table that was
\* loaded from the file.
C8_OriginalImmutable ==
    session_state.df_original # NoRef
        => heap[session_state.df_original] = loaded.table

\* C8 witness: a snippet has changed its copy in place, so the cleaned table
\* differs from the original.
C8_Witness ==
    /\ last.op = "analyze" /\ last.outcome = "success"
    /\ session_state.df_clean # NoRef
    /\ CleanTable # heap[session_state.df_original]
    /\ heap[session_state.df_original] = loaded.table

\* The three results are in the session together and come from one response.
ResultsTogether ==
    /\ (session_state.df_clean # NoRef) <=> (session_state.report_text # Missing)
    /\ (session_state.df_clean # NoRef) <=> (session_state.cleaning_code # Missing)
    /\ session_state.df_clean # NoRef
          => /\ session_state.cleaning_code = extract_code(derived.text)
             /\ session_state.report_text = extract_report(derived.text)
    /\ shown \in {"results", "KeyError"} => session_state.df_clean # NoRef

\* C10 (as claimed): whenever no script run is in progress, the three
\* results are present together, come from the same response, and the
\* cleaned table is the result of executing the stored snippet on a copy of
\* the stored original.
C10_ResultsConsistent ==
    run = "idle"
        => /\ ResultsTogether
           /\ (session_state.df_clean # NoRef
                  /\ session_state.cleaning_code # Missing)
                 => CleanTable = SnippetResult(session_state.cleaning_code,
                                               heap[session_state.df_original])

----------------------------------------------------------------------------
\* ---- Properties of the parser ----

\* The opening fence occurs in t at position i.
OpenAt(t, i) == i + 3 <= Len(t) /\ SubSeq(t, i, i + 3) = OpenFence

CloseAt(t, j) == j + 2 <= Len(t) /\ SubSeq(t, j, j + 2) = CloseFence

HasOpen(t) == \E i \in 1..Len(t) : OpenAt(t, i)

\* An opening fence and, after it, a closing fence.
HasFencedBlock(t) ==
    \E i \in 1..Len(t) : OpenAt(t, i) /\ \E j \in (i + 4)..Len(t) : CloseAt(t, j)

HasHeader(t) == \E i \in 1..Len(t) : t[i] = "R"

EndsWithBacktick(s) == s # <<>> /\ s[Len(s)] = "~"

\* C3 (as claimed): extract_code returns the empty string whenever the
\* opening fence or a closing fence after it is absent.
C3_EmptyUnlessFenced ==
    (pc = "done" /\ ~HasFencedBlock(text)) => snip = <<>>

\* C4 (as claimed): without the opening fence extract_code returns the empty
\* string and extract_report the fallback.
C4_FallbackWithoutFence ==
    (pc = "done" /\ ~HasOpen(text)) => (snip = <<>> /\ rep = Fallback)

\* C4 (amended): without the opening fence extract_code returns the empty
\* string, and extract_report returns the fallback when the text has no
\* rationale header and the whole text trimmed when it has one.
C4_Amended ==
    (pc = "done" /\ ~HasOpen(text))
        => /\ snip = <<>>
           /\ rep = IF HasHeader(text) THEN strip(text) ELSE Fallback

\* C4 witness: a text with the header and no fence, returned trimmed.
C4_Witness ==
    /\ pc = "done" /\ ~HasOpen(text) /\ HasHeader(text)
    /\ snip = <<>> /\ rep = strip(text) /\ rep # text /\ rep # Fallback

\* C9 (as claimed): wrapping the extracted snippet in fences and extracting
\* again gives the snippet back.
C9_Idempotent == pc = "done" => again = snip

\* C9 (amended): wrapping the extracted snippet in fences and extracting
\* again gives the snippet back whenever the snippet does not end with a
\* backtick.
C9_Amended == (pc = "done" /\ ~EndsWithBacktick(snip)) => again = snip

\* C9 witness: a non-empty snippet that starts with a backtick survives the
\* round trip.
C9_Witness ==
    /\ pc = "done" /\ snip # <<>> /\ snip[1] = "~" /\ ~EndsWithBacktick(snip)
    /\ again = snip /\ HasFencedBlock(text)

====
